---- MODULE Spec2Model ----
(***************************************************************************)
(* The feed constructor (algorithm.ts: constructFeed, nextScene and the    *)
(* scoring components) and the spherical tessellation engine               *)
(* (tessellation.ts: findCell, nearbySceneIDs) of the WWT Constellations   *)
(* backend.                                                                *)
(*                                                                         *)
(* Numbers.  The source computes with IEEE doubles.  A score component is  *)
(* modelled in fixed point, as an integer number of millionths (Scale is   *)
(* 1.0), NaN by the value NaN below (propagated by every arithmetic        *)
(* operator, as in the source) and Infinity by the largest integer.        *)
(*                                                                         *)
(* Sky positions.  A position (ra_rad, dec_rad) is represented by the      *)
(* vector of its direction scaled to length 9 and restricted to the        *)
(* directions with integer coordinates (x^2 + y^2 + z^2 = 81); the         *)
(* great-circle distance of two positions is the arc cosine of their dot   *)
(* product over 81, tabulated in microradians.                             *)
(*                                                                         *)
(* Arrays are sequences; the source's index i is position i + 1.           *)
(***************************************************************************)
EXTENDS Integers, Sequences, FiniteSets, TLC

VARIABLES
  params,           \* FeedConstructionParams with the defaults filled in
  now,              \* Date.now() at the call of constructFeed
  feed,             \* constructFeed: the local `feed`
  handleCounts,     \* constructFeed: the local `handleCounts`
  remainingScenes,  \* constructFeed: the local `remainingScenes`
  calls,            \* the calls of constructFeed made so far, with their outcomes
  tessellation,     \* the MongoTessellation a query reads
  request,          \* the arguments of the query under way
  sceneIDs,         \* nearbySceneIDs: the local `sceneIDs`
  queue,            \* nearbySceneIDs: the local `queue`
  visited,          \* nearbySceneIDs: the local `visited`
  next,             \* findCell: `next` (<<>> for null)
  found,            \* findCell: the local `found`
  cell,             \* findCell: the local `cell`
  dist,             \* findCell: the local `dist`
  response,         \* what the query under way returned or answered (<<>> before)
  tessellations,    \* the collection state.tessellations
  minDistance,      \* createGlobalTessellation: the parameter `minDistance`
  cursor,           \* createGlobalTessellation: the scenes the cursor has yet to yield
  tessellationScenes, \* createGlobalTessellation: the local `tessellationScenes`
  job,              \* position in the rebuild of the global tessellation
  stateScenes,      \* the collection state.scenes, in its natural order
  pc                \* position in the operation under way

feedVars == <<params, now, feed, handleCounts, remainingScenes>>

nearbyVars == <<sceneIDs, queue, visited>>

cellVars == <<next, found, cell, dist>>

storeVars == <<tessellations, minDistance, cursor, tessellationScenes, job,
               stateScenes>>

vars == <<feedVars, calls, tessellation, request, nearbyVars, cellVars, response,
          storeVars, pc>>

(***************************************************************************)
(* Bounds of the model.                                                    *)
(***************************************************************************)
MaxScenes == 3
MaxSize == 3
MaxFirstN == 2
MaxCells == 4
MaxCount == 5
MaxSites == 5

(***************************************************************************)
(* Numbers.                                                                *)
(***************************************************************************)
Scale == 1000 * 1000

NaN == -2147483647

Infinity == 2147483647

NumAdd(a, b) == IF a = NaN \/ b = NaN THEN NaN ELSE a + b

NumSub(a, b) == IF a = NaN \/ b = NaN THEN NaN ELSE a - b

NumMul(a, b) == IF a = NaN \/ b = NaN THEN NaN ELSE a * b

\* a / b for a >= 0 and b >= 0, in millionths: 0 / 0 is NaN, a / 0 is Infinity.
NumDiv(a, b) ==
  IF b = 0 THEN (IF a = 0 THEN NaN ELSE Infinity) ELSE (a * Scale) \div b

Max(S) == CHOOSE x \in S : \A y \in S : y <= x

SeqToSet(s) == { s[i] : i \in 1..Len(s) }

\* Array.prototype.splice(i, 1), for the source's index i - 1
keepAll(s, i) == s
Remove(s, i) == SubSeq(s, 1, i - 1) \o SubSeq(s, i + 1, Len(s))

(***************************************************************************)
(* Great-circle distance (distance of @wwtelescope/astro), in              *)
(* microradians.  ArcCosTable[d + 82] is acos(d / 81).                     *)
(***************************************************************************)
ArcCosTable ==
  <<  3141593, 2984296, 2918911, 2868580, 2826015, 2788395, 2754276, 2722799,
     2693406, 2665710, 2639429, 2614350, 2590307, 2567170, 2544832, 2523206,
     2502218, 2481807, 2461919, 2442509, 2423537, 2404969, 2386773, 2368923,
     2351393, 2334163, 2317213, 2300524, 2284081, 2267868, 2251873, 2236082,
     2220485, 2205070, 2189828, 2174750, 2159827, 2145052, 2130416, 2115914,
     2101538, 2087282, 2073141, 2059108, 2045180, 2031350, 2017615, 2003970,
     1990410, 1976931, 1963531, 1950204, 1936948, 1923759, 1910633, 1897568,
     1884561, 1871609, 1858708, 1845857, 1833051, 1820290, 1807570, 1794889,
     1782245, 1769635, 1757057, 1744508, 1731987, 1719492, 1707020, 1694569,
     1682137, 1669723, 1657324, 1644938, 1632564, 1620199, 1607842, 1595490,
     1583142, 1570796, 1558450, 1546102, 1533751, 1521394, 1509029, 1496654,
     1484269, 1471870, 1459455, 1447024, 1434573, 1422101, 1409605, 1397084,
     1384536, 1371958, 1359348, 1346703, 1334022, 1321302, 1308541, 1295736,
     1282885, 1269984, 1257031, 1244024, 1230959, 1217834, 1204645, 1191389,
     1178062, 1164661, 1151183, 1137623, 1123978, 1110242, 1096413, 1082484,
     1068452, 1054311, 1040055, 1025679, 1011176, 996541, 981765, 966843,
     951764, 936523, 921108, 905511, 889720, 873725, 857512, 841069,
     824380, 807429, 790199, 772670, 754820, 736624, 718056, 699084,
     679674, 659786, 639375, 618387, 596760, 574423, 551286, 527243,
     502164, 475882, 448186, 418793, 387317, 353197, 315578, 273013,
     222682, 157297, 0 >>

SinExpTable ==
  <<  0, 0, 0, 0, 0, 0, 0, 0,
     0, 0, 0, 0, 0, 0, 0, 0,
     0, 0, 0, 0, 0, 0, 0, 0,
     0, 0, 0, 0, 0, 0, 0, 0,
     0, 0, 0, 0, 0, 0, 0, 0,
     0, 0, 0, 0, 0, 0, 0, 0,
     0, 0, 0, 0, 0, 0, 0, 0,
     0, 0, 0, 0, 0, 0, 0, 0,
     0, 0, 0, 0, 0, 0, 0, 0,
     0, 0, 0, 0, 0, 0, 0, 0,
     0, 0, 0, 0, 0, 0, 0, 0,
     0, 0, 0, 0, 0, 0, 0, 0,
     0, 0, 0, 0, 0, 0, 0, 0,
     0, 0, 0, 0, 0, 0, 0, 0,
     0, 0, 0, 0, 0, 0, 0, 0,
     0, 0, 0, 0, 0, 0, 0, 0,
     0, 0, 0, 0, 1, 1, 2, 4,
     7, 13, 23, 41, 72, 127, 220, 380,
     651, 1108, 1871, 3133, 5198, 8539, 13874, 22271,
     35258, 54928, 83945, 125288, 181399, 252152, 330923, 397975,
     408723, 260858, -379634 >>

Dot(p, q) == p[1] * q[1] + p[2] * q[2] + p[3] * q[3]

distance(p, q) == ArcCosTable[Dot(p, q) + 82]

(***************************************************************************)
(* The scoring components.                                                 *)
(***************************************************************************)
DEFAULT_WEIGHTS == [time |-> 1, popularity |-> 1, distance |-> 1, variety |-> 1]

score(item, weights) ==
  NumAdd(NumAdd(NumAdd(NumMul(weights.time, item.timeComponent),
                       NumMul(weights.popularity, item.popularityComponent)),
                NumMul(weights.distance, item.distanceComponent)),
         NumMul(weights.variety, item.varietyComponent))

\* exp(-n / 5) for n = 0, 1, ...
HandleCountTable ==
  << 1000000, 818731, 670320, 548812, 449329, 367879, 301194, 246597 >>

handleCountComponent(n) == HandleCountTable[n + 1]

\* sinExpWeight((10 * d - 1) / 2) = sin(exp(-x^2) * x), d in microradians.
distanceComponent(d) ==
  SinExpTable[CHOOSE i \in 1..Len(ArcCosTable) : ArcCosTable[i] = d]

popularity(scene) == 2 * scene.likes + scene.impressions

\* Dates are whole days in the model; the source counts milliseconds.
millisecondsPerDay == 1000 * 60 * 60 * 24

\* A period of ten days where the source has a week.
millisecondsPerTenDays == 1000 * 60 * 60 * 24 * 10

millisecondsPerWeek == 1000 * 60 * 60 * 24 * 7

\* Date.now() is the argument t.
timeSinceCreation(scene, t) == (t - scene.creation_date) * millisecondsPerDay

distanceBetween(scene1, scene2) == distance(scene1.place, scene2.place)

(***************************************************************************)
(* halfLogisticDecay(0.01, millisecondsPerWeek).  In doubles exp(-k * t0)  *)
(* is 0, so a = 1 and the value is 1 / (1 + exp(0.01 * (t - t0))): exactly *)
(* 1 for t <= t0 - 3675 ms, exactly 1/2 at t0 and exactly 0 for            *)
(* t >= t0 + 70979 ms.  The model's dates are whole days, so no other age  *)
(* occurs.                                                                 *)
(***************************************************************************)
timeDecay(t) ==
  IF t < millisecondsPerWeek THEN Scale
  ELSE IF t = millisecondsPerWeek THEN Scale \div 2
  ELSE 0

(***************************************************************************)
(* Array.prototype.sort((a, b) => score(b, weights) - score(a, weights)):  *)
(* stable, and a comparator value of NaN counts as 0.                      *)
(***************************************************************************)
comparator(a, b, weights) ==
  LET v == NumSub(score(b, weights), score(a, weights))
  IN  IF v = NaN THEN 0 ELSE v

RECURSIVE insert(_, _, _)
insert(sorted, item, weights) ==
  IF sorted = <<>> THEN <<item>>
  ELSE IF comparator(Head(sorted), item, weights) > 0
       THEN <<item>> \o sorted
       ELSE <<Head(sorted)>> \o insert(Tail(sorted), item, weights)

RECURSIVE sort(_, _)
sort(items, weights) ==
  IF items = <<>> THEN <<>>
  ELSE insert(sort(SubSeq(items, 1, Len(items) - 1), weights),
              items[Len(items)], weights)

(***************************************************************************)
(* nextScene.  The result is the scene returned (<<>> for null) with the   *)
(* items and handleCounts as the call leaves them.                         *)
(***************************************************************************)
NoCounts == [h \in {} |-> 0]

\* A count that stays at 1 however often the handle is placed.
setCountOnce(counts, handle, n) ==
  [h \in DOMAIN counts \cup {handle} |-> IF h = handle THEN 1 ELSE counts[h]]

setCount(counts, handle, n) ==
  [h \in DOMAIN counts \cup {handle} |-> IF h = handle THEN n ELSE counts[h]]

\* `handle in handleCounts`
inHandleCounts(handle, counts) == handle \in DOMAIN counts

\* items.forEach(...): the variety and distance components of every item
recompute(items, mostRecent, counts) ==
  [i \in 1..Len(items) |->
     LET handle == items[i].scene.handle_id
         handleCount == IF inHandleCounts(handle, counts) THEN counts[handle] ELSE 0
     IN  [items[i] EXCEPT
            !.varietyComponent = handleCountComponent(handleCount),
            !.distanceComponent =
               distanceComponent(distanceBetween(mostRecent, items[i].scene))]]

\* A scan that, finding every handle present, falls back on the top item.
RECURSIVE scanOrRelax(_, _, _)
scanOrRelax(items, counts, index) ==
  IF index > Len(items) THEN (IF Len(items) > 0 THEN 1 ELSE 0)
  ELSE IF ~inHandleCounts(items[index].scene.handle_id, counts) THEN index
  ELSE scanOrRelax(items, counts, index + 1)

\* The while loop of the diversity window: the position of the first item
\* whose handle is not in handleCounts, 0 when the loop runs off the end.
RECURSIVE scanForNewHandle(_, _, _)
scanForNewHandle(items, counts, index) ==
  IF index > Len(items) THEN 0
  ELSE IF ~inHandleCounts(items[index].scene.handle_id, counts) THEN index
  ELSE scanForNewHandle(items, counts, index + 1)

\* A window one position short.
inWindowShort(length, firstNDistinctHandles) == length + 1 < firstNDistinctHandles

\* feed.length < firstNDistinctHandles
inWindow(length, firstNDistinctHandles) == length < firstNDistinctHandles

nextScene(p) ==
  IF Len(p.items) = 0
  THEN [scene |-> <<>>, items |-> p.items, handleCounts |-> p.handleCounts]
  ELSE
    LET mostRecent == p.feed[Len(p.feed)]
        items == sort(recompute(p.items, mostRecent, p.handleCounts), p.weights)
    IN  IF inWindow(Len(p.feed), p.firstNDistinctHandles)
        THEN LET index == scanForNewHandle(items, p.handleCounts, 1)
             IN  IF index = 0
                 THEN [scene |-> <<>>, items |-> items,
                       handleCounts |-> p.handleCounts]
                 ELSE [scene |-> <<items[index].scene>>,
                       items |-> Remove(items, index),
                       handleCounts |->
                         setCount(p.handleCounts, items[index].scene.handle_id, 1)]
        ELSE LET scene == Head(items).scene
                 handle == scene.handle_id
             IN  [scene |-> <<scene>>,
                  items |-> Tail(items),
                  handleCounts |->
                    IF inHandleCounts(handle, p.handleCounts)
                    THEN setCount(p.handleCounts, handle, p.handleCounts[handle] + 1)
                    ELSE setCount(p.handleCounts, handle, 1)]

(***************************************************************************)
(* constructFeed, in three steps: the set-up up to the first sort, the     *)
(* choice of item 0, and one turn of the while loop.  A step maps the      *)
(* locals [feed, handleCounts, remainingScenes, pc] to their next values.  *)
(***************************************************************************)
haveInitialScene(p) == p.initialScene # <<>>

noSeedCounts(p) == NoCounts

\* handleCounts[initialScene.handle_id.toString()] = 1
seedCounts(p) ==
  IF haveInitialScene(p)
  THEN setCount(NoCounts, p.initialScene[1].handle_id, 1)
  ELSE NoCounts


\* A filter that keeps every scene.
keepInitialScene(scenes, initialScene) == scenes

\* scenes.filter((s) => !s._id.equals(initialScene._id))
excludeInitialScene(scenes, initialScene) ==
  SelectSeq(scenes, LAMBDA s : s._id # initialScene._id)

prepare(p, t) ==
  LET scenes == IF haveInitialScene(p)
                THEN excludeInitialScene(p.scenes, p.initialScene[1])
                ELSE p.scenes
      popularities == [i \in 1..Len(scenes) |-> popularity(scenes[i])]
      maxPopularity == Max(SeqToSet(popularities))
      items == [i \in 1..Len(scenes) |->
                  [scene |-> scenes[i],
                   popularityComponent |-> NumDiv(popularities[i], maxPopularity),
                   distanceComponent |-> 0,
                   varietyComponent |-> 0,
                   timeComponent |-> timeDecay(timeSinceCreation(scenes[i], t))]]
  IN  [feed |-> IF haveInitialScene(p) THEN <<p.initialScene[1]>> ELSE <<>>,
       handleCounts |-> seedCounts(p),
       remainingScenes |-> sort(items, DEFAULT_WEIGHTS),
       pc |-> "sorted"]

\* remainingScenes.shift()!.scene throws a TypeError on an empty array.
pickFirst(p, st) ==
  IF haveInitialScene(p) THEN [st EXCEPT !.pc = "loop"]
  ELSE IF st.remainingScenes = <<>> THEN [st EXCEPT !.pc = "error"]
  ELSE LET firstScene == Head(st.remainingScenes).scene
       IN  [feed |-> Append(st.feed, firstScene),
            handleCounts |-> setCount(st.handleCounts, firstScene.handle_id, 1),
            remainingScenes |-> Tail(st.remainingScenes),
            pc |-> "loop"]

\* feed.length < size
belowSize(length, size) == length < size

loopStep(p, st) ==
  IF ~belowSize(Len(st.feed), p.size) THEN [st EXCEPT !.pc = "done"]
  ELSE LET r == nextScene([items |-> st.remainingScenes,
                           handleCounts |-> st.handleCounts,
                           feed |-> st.feed,
                           weights |-> p.weights,
                           firstNDistinctHandles |-> p.firstNDistinctHandles])
       IN  [feed |-> IF r.scene = <<>> THEN st.feed ELSE Append(st.feed, r.scene[1]),
            handleCounts |-> r.handleCounts,
            remainingScenes |-> r.items,
            pc |-> IF r.scene = <<>> THEN "done" ELSE "loop"]

RECURSIVE runLoop(_, _)
runLoop(p, st) ==
  IF st.pc = "loop" THEN runLoop(p, loopStep(p, st)) ELSE st

\* The whole call, made when Date.now() is t.
constructFeed(p, t) == runLoop(p, pickFirst(p, prepare(p, t)))

(***************************************************************************)
(* createTessellation.  geoVoronoi is the d3-geo-voronoi library; its      *)
(* delaunay.neighbors is the adjacency of the spherical Delaunay           *)
(* triangulation of the points, whose triangles are the faces of the       *)
(* convex hull of the points taken as vectors: three points span a face    *)
(* when every other point lies strictly on one side of their plane.        *)
(* Neighbour lists hold the source's (0-based) indices.  The conversion to *)
(* degrees and back keeps a point's direction, which is what a position    *)
(* is here.  The polygon of a point is its Voronoi cell, whose corners are *)
(* the circumcentres of the Delaunay triangles that meet at the point: it  *)
(* is represented by the set of these triangles.  `new Date()` is the      *)
(* argument t.                                                             *)
(***************************************************************************)
Minus(p, q) == <<p[1] - q[1], p[2] - q[2], p[3] - q[3]>>

Det(a, b, c) ==
  a[1] * (b[2] * c[3] - b[3] * c[2]) - a[2] * (b[1] * c[3] - b[3] * c[1])
    + a[3] * (b[1] * c[2] - b[2] * c[1])

Side(p, q, r, s) == Det(Minus(q, p), Minus(r, p), Minus(s, p))

isFace(points, i, j, k) ==
  LET others == (1..Len(points)) \ {i, j, k}
  IN  \/ \A l \in others : Side(points[i], points[j], points[k], points[l]) > 0
      \/ \A l \in others : Side(points[i], points[j], points[k], points[l]) < 0

\* Two points alone are each other's neighbour.
delaunayEdge(points, i, j) ==
  /\ i # j
  /\ \/ Len(points) = 2
     \/ \E k \in (1..Len(points)) \ {i, j} : isFace(points, i, j, k)

RECURSIVE ascending(_)
ascending(S) ==
  IF S = {} THEN <<>>
  ELSE LET m == CHOOSE x \in S : \A y \in S : x <= y
       IN  <<m>> \o ascending(S \ {m})

geoDelaunayNeighbors(points) ==
  [i \in 1..Len(points) |->
     ascending({ j - 1 : j \in { j \in 1..Len(points) : delaunayEdge(points, i, j) } })]

\* A point at the place of an earlier point has a degenerate polygon, which
\* is not added: the polygons are those of the points at distinct places.
geoVoronoiPolygons(points) ==
  LET kept == ascending({ i \in 1..Len(points) :
                            \A j \in 1..(i - 1) : points[j] # points[i] })
      distinct == [k \in 1..Len(kept) |-> points[kept[k]]]
  IN  [i \in 1..Len(distinct) |->
         LET others == (1..Len(distinct)) \ {i}
         IN  { {i, pr[1], pr[2]} :
                 pr \in { pr \in others \X others :
                            pr[1] < pr[2] /\ isFace(distinct, i, pr[1], pr[2]) } }]

createTessellation(scenes, name, t) ==
  LET points == [i \in 1..Len(scenes) |-> scenes[i].place]
  IN  [name |-> name,
       neighbors |-> geoDelaunayNeighbors(points),
       points |-> points,
       polygons |-> geoVoronoiPolygons(points),
       scene_ids |-> [i \in 1..Len(scenes) |-> scenes[i]._id],
       last_updated |-> t]

(***************************************************************************)
(* findCell, in steps: the set-up and one turn of the do-while loop.  A    *)
(* step maps the locals [next, found, cell, dist, pc] to their next        *)
(* values; `next` is <<>> for null.                                        *)
(***************************************************************************)
\* The comparison the other way round.
fartherThan(ndist, d) == ndist > d
closerOrEqual(ndist, d) == ndist <= d

\* ndist < dist
closerThan(ndist, d) == ndist < d

\* tessellation.neighbors[cell].forEach(...), on the neighbours left to visit
RECURSIVE scanNeighbors(_, _, _, _)
scanNeighbors(t, position, neighbors, st) ==
  IF neighbors = <<>> THEN st
  ELSE LET i == Head(neighbors)
           ndist == distance(position, t.points[i + 1])
       IN  scanNeighbors(t, position, Tail(neighbors),
             IF closerThan(ndist, st.dist)
             THEN [st EXCEPT !.dist = ndist, !.next = <<i>>, !.found = i]
             ELSE st)

startFoundZero(hint) ==
  LET first == IF hint = <<>> THEN 0 ELSE hint[1]
  IN  [next |-> <<first>>, found |-> 0, cell |-> 0, dist |-> 0, pc |-> "walk"]

\* if (next == null) next = 0; let found = next; let cell = 0; let dist = 0;
startCell(hint) ==
  LET first == IF hint = <<>> THEN 0 ELSE hint[1]
  IN  [next |-> <<first>>, found |-> first, cell |-> 0, dist |-> 0, pc |-> "walk"]

walkStep(t, position, st) ==
  LET current == IF st.next = <<>> \/ st.next = <<0>> THEN 0 ELSE st.next[1]
      here == [st EXCEPT !.cell = current, !.next = <<>>,
                         !.dist = distance(position, t.points[current + 1])]
      after == scanNeighbors(t, position, t.neighbors[current + 1], here)
  IN  [after EXCEPT !.pc = IF after.next # <<>> THEN "walk" ELSE "found"]

RECURSIVE walk(_, _, _)
walk(t, position, st) ==
  IF st.pc = "walk" THEN walk(t, position, walkStep(t, position, st)) ELSE st

findCell(t, position, hint) == walk(t, position, startCell(hint)).found

(***************************************************************************)
(* findCellWithRadius.  `radius` is <<>> for undefined; the result is      *)
(* <<>> for null.                                                          *)
(***************************************************************************)
\* !radius || distance(raRad, decRad, foundPoint[0], foundPoint[1]) < radius
acceptsFound(radius, d) == radius = <<>> \/ radius[1] = 0 \/ d < radius[1]

radiusCheck(t, position, radius, foundCell) ==
  LET foundPoint == t.points[foundCell + 1]
  IN  IF acceptsFound(radius, distance(position, foundPoint))
      THEN <<foundCell>>
      ELSE <<>>

findCellWithRadius(t, position, radius) ==
  radiusCheck(t, position, radius, findCell(t, position, <<>>))

(***************************************************************************)
(* nearbySceneIDs, in steps: the set-up and one turn of the while loop.  A *)
(* step maps the locals [sceneIDs, queue, visited, pc] to their next       *)
(* values.                                                                 *)
(***************************************************************************)
\* scene_ids.findIndex((id) => id.equals(sceneID))
findIndexOrFirst(ids, id) ==
  IF \E i \in 1..Len(ids) : ids[i] = id
  THEN (CHOOSE i \in 1..Len(ids) :
          ids[i] = id /\ \A j \in 1..(i - 1) : ids[j] # id) - 1
  ELSE 0

\* baseTessellation.scene_ids.findIndex((id) => id.equals(sceneID))
findIndex(ids, id) ==
  IF \E i \in 1..Len(ids) : ids[i] = id
  THEN (CHOOSE i \in 1..Len(ids) :
          ids[i] = id /\ \A j \in 1..(i - 1) : ids[j] # id) - 1
  ELSE -1

nearbyStart(t, sceneID) ==
  LET index == findIndex(t.scene_ids, sceneID)
  IN  IF index < 0
      THEN [sceneIDs |-> <<sceneID>>, queue |-> <<>>, visited |-> {},
            pc |-> "returned"]
      ELSE [sceneIDs |-> <<sceneID>>, queue |-> <<index>>, visited |-> {},
            pc |-> "bfs"]

\* A bound tested with <= in place of <.
wantsOneMore(length, size) == length <= size

\* sceneIDs.length < size
wantsMore(length, size) == length < size

\* The neighbours put in front of the queue.
unshift(q, neighbors) == neighbors \o q

\* queue.push(...neighbors)
push(q, neighbors) == q \o neighbors

nearbyStep(t, size, st) ==
  IF wantsMore(Len(st.sceneIDs), size) /\ st.queue # <<>>
  THEN LET sceneIndex == Head(st.queue)
       IN  IF sceneIndex \in st.visited
           THEN [st EXCEPT !.queue = Tail(st.queue)]
           ELSE [sceneIDs |-> Append(st.sceneIDs, t.scene_ids[sceneIndex + 1]),
                 queue |-> push(Tail(st.queue), t.neighbors[sceneIndex + 1]),
                 visited |-> st.visited \cup {sceneIndex},
                 pc |-> "bfs"]
  ELSE [st EXCEPT !.pc = "returned"]

RECURSIVE runNearby(_, _, _)
runNearby(t, size, st) ==
  IF st.pc = "bfs" THEN runNearby(t, size, nearbyStep(t, size, st)) ELSE st

nearbySceneIDs(sceneID, t, size) ==
  runNearby(t, size, nearbyStart(t, sceneID)).sceneIDs

(***************************************************************************)
(* createGlobalTessellation: the pre-filter, one scene of the cursor at a  *)
(* time.                                                                   *)
(***************************************************************************)
\* A separation tested with >= in place of >.
atLeast(d, m) == d >= m
fartherThanTwice(d, m) == d > 2 * m

\* distance(place.ra_rad, place.dec_rad, s.place.ra_rad, s.place.dec_rad) > minDistance
fartherApart(d, m) == d > m

\* tessellationScenes.every(...)
accept(scene, accepted, m) ==
  \A i \in 1..Len(accepted) :
     fartherApart(distance(scene.place, accepted[i].place), m)

filterStep(scene, accepted, m) ==
  IF accept(scene, accepted, m) THEN Append(accepted, scene) ELSE accepted

(***************************************************************************)
(* The collection state.tessellations: a set of documents, at most one of  *)
(* a name (the collection has a unique index on name).  A document found   *)
(* is the document, null is <<>>.                                          *)
(***************************************************************************)
findOne(collection, name) ==
  IF \E doc \in collection : doc.name = name
  THEN CHOOSE doc \in collection : doc.name = name
  ELSE <<>>

\* An update that sets the arrays of the adjacency and leaves the rest.
setAdjacencyOnly(doc, tess) ==
  [doc EXCEPT !.neighbors = tess.neighbors, !.points = tess.points]

\* { $set: tess }: every field of tess is set in the one update
setAll(doc, tess) ==
  [doc EXCEPT !.name = tess.name, !.neighbors = tess.neighbors,
              !.points = tess.points, !.polygons = tess.polygons,
              !.scene_ids = tess.scene_ids, !.last_updated = tess.last_updated]

\* updateOne({ name: tess.name }, { $set: tess }, { upsert: true })
updateOne(collection, name, tess) ==
  IF findOne(collection, name) = <<>>
  THEN collection \cup {tess}
  ELSE (collection \ {findOne(collection, name)})
          \cup {setAll(findOne(collection, name), tess)}

(***************************************************************************)
(* The answers of the queries.  A position of <<>> is one whose ra or dec  *)
(* does not parse (NaN); a size of <<>> is a missing size.                 *)
(***************************************************************************)
\* GET /tessellations/cell, after the findOne
cellAnswer(t, req) ==
  IF t = <<>>
  THEN [statusCode |-> 404, error |-> TRUE, message |-> "Not found"]
  ELSE IF req.position = <<>>
  THEN [statusCode |-> 400, error |-> TRUE,
        message |-> "Right ascension and declination must be numbers"]
  ELSE IF t.points = <<>>
  THEN [statusCode |-> 500, error |-> TRUE, message |-> "TypeError"]
  ELSE LET found_cell == findCell(t, req.position, <<>>)
           around == t.neighbors[found_cell + 1]
       IN  [statusCode |-> 200,
            neighbors |-> [k \in 1..Len(around) |-> t.scene_ids[around[k] + 1]],
            location |-> t.points[found_cell + 1],
            scene_id |-> t.scene_ids[found_cell + 1]]

\* GET /tessellations/nearby-feed/:sceneID, after the findOne; the scenes of
\* the ids are then read and serialised
nearbyFeedAnswer(t, req) ==
  IF t = <<>>
  THEN [statusCode |-> 500, error |-> TRUE,
        message |-> "error finding global tessellation"]
  ELSE IF req.size = <<>>
  THEN [statusCode |-> 400, error |-> TRUE, message |-> "invalid size"]
  ELSE [statusCode |-> 200, error |-> FALSE,
        results |-> nearbySceneIDs(req.sceneID, t, req.size[1])]

(***************************************************************************)
(* The inputs of the model.                                                *)
(***************************************************************************)
PlaceA == <<8, 4, 1>>
PlaceB == <<8, 4, -1>>
PlaceC == <<7, 4, 4>>
PlaceD == <<9, 0, 0>>

Scene(id, handle, likes, impressions, created, place) ==
  [_id |-> id, handle_id |-> handle, likes |-> likes,
   impressions |-> impressions, creation_date |-> created, place |-> place]

\* Scenes of the store: three publishers; no popularity and some; created
\* on day 1 (older than a week at both clock readings), on day 5 (a week
\* old between the two) and on day 9; two of them at the same place; old
\* and new ones without popularity.
StoredScenes ==
  { Scene(1, "h1", 0, 0, 9, PlaceA),
    Scene(2, "h1", 2, 1, 1, PlaceB),
    Scene(3, "h2", 0, 0, 9, PlaceA),
    Scene(4, "h2", 1, 0, 5, PlaceC),
    Scene(5, "h3", 0, 3, 1, PlaceD),
    Scene(6, "h3", 0, 0, 1, PlaceC) }

\* The days on which Date.now() is read.
Clock == {10, 13}

RECURSIVE SeqsOfDistinct(_, _)
SeqsOfDistinct(S, n) ==
  IF n = 0 THEN { <<>> }
  ELSE LET shorter == SeqsOfDistinct(S, n - 1)
       IN  shorter \cup { Append(s, x) : s \in { q \in shorter : Len(q) = n - 1 },
                                          x \in S } 

Pools == { s \in SeqsOfDistinct(StoredScenes, MaxScenes) :
             \A i, j \in 1..Len(s) : i # j => s[i] # s[j] }

WeightChoices ==
  { DEFAULT_WEIGHTS,
    [time |-> 0, popularity |-> 2, distance |-> 1, variety |-> 1] }

\* Positions in general position (no four in a plane), far apart.
Sites ==
  << <<8, 4, 1>>, <<8, 4, -1>>, <<7, 4, 4>>, <<9, 0, 0>>,
     <<-6, -6, 3>>, <<-8, 1, -4>>, <<-4, -7, 4>>, <<-4, 1, 8>> >>

\* The scene that lies at Sites[i].
SiteScene(i) == Scene(100 + i, "h1", 0, 0, 1, Sites[i])

\* The tessellations createTessellation builds from 3 to MaxSites of them.
BuiltTessellations ==
  { createTessellation([k \in 1..Len(chosen) |-> SiteScene(chosen[k])], "global", 1) :
      chosen \in { ascending(S) : S \in { S \in SUBSET (1..Len(Sites)) :
                                            Cardinality(S) \in 3..MaxSites } } }

\* Tessellations of 1 to MaxCells cells with any symmetric adjacency.
Pairs(n) == { pr \in (0..(n - 1)) \X (0..(n - 1)) : pr[1] < pr[2] }

GraphTessellation(n, edges) ==
  [name |-> "global",
   neighbors |-> [i \in 1..n |->
      ascending({ j \in 0..(n - 1) : <<i - 1, j>> \in edges \/ <<j, i - 1>> \in edges })],
   points |-> [i \in 1..n |-> Sites[i]],
   polygons |-> [i \in 1..n |-> {}],
   scene_ids |-> [i \in 1..n |-> 100 + i],
   last_updated |-> 1]

GraphTessellations ==
  UNION { { GraphTessellation(n, edges) : edges \in SUBSET Pairs(n) } :
            n \in 1..MaxCells }

ParamChoices ==
  [scenes : Pools,
   initialScene : { <<>> } \cup { <<s>> : s \in StoredScenes },
   weights : WeightChoices,
   firstNDistinctHandles : (0..MaxFirstN) \cup {5},
   size : (0..MaxSize) \cup {Infinity}]

(***************************************************************************)
(* Values of the variables of an engine that a specification does not use. *)
(***************************************************************************)
FeedIdle ==
  /\ params = <<>>
  /\ now = 0
  /\ feed = <<>>
  /\ handleCounts = NoCounts
  /\ remainingScenes = <<>>

QueryIdle ==
  /\ tessellation = <<>>
  /\ request = <<>>

NearbyIdle ==
  /\ sceneIDs = <<>>
  /\ queue = <<>>
  /\ visited = {}

CellIdle ==
  /\ next = <<>>
  /\ found = 0
  /\ cell = 0
  /\ dist = 0

StoreIdle ==
  /\ response = <<>>
  /\ tessellations = {}
  /\ minDistance = 0
  /\ cursor = <<>>
  /\ tessellationScenes = <<>>
  /\ job = "idle"
  /\ stateScenes = <<>>

(***************************************************************************)
(* Spec: one call of constructFeed, step by step.                          *)
(***************************************************************************)
Init ==
  /\ params \in ParamChoices
  /\ now \in Clock
  /\ feed = <<>>
  /\ handleCounts = NoCounts
  /\ remainingScenes = <<>>
  /\ pc = "start"
  /\ calls = <<>>
  /\ QueryIdle /\ NearbyIdle /\ CellIdle /\ StoreIdle

locals == [feed |-> feed, handleCounts |-> handleCounts,
           remainingScenes |-> remainingScenes, pc |-> pc]

\* The locals written as if remainingScenes were the caller's array itself:
\* the sort in place, shift and splice then rearrange and shorten `scenes`.
becomeInPlace(st) ==
  /\ feed' = st.feed
  /\ handleCounts' = st.handleCounts
  /\ remainingScenes' = st.remainingScenes
  /\ pc' = st.pc
  /\ params' = [params EXCEPT !.scenes =
                  [i \in 1..Len(st.remainingScenes) |-> st.remainingScenes[i].scene]]
  /\ UNCHANGED <<now, calls, tessellation, request, nearbyVars, cellVars,
                 response, storeVars>>

\* remainingScenes is the array scenes.map(...) built and `scenes` after a
\* seed the array scenes.filter(...) built: the caller's array, its scenes
\* and the weights are only read.
become(st) ==
  /\ feed' = st.feed
  /\ handleCounts' = st.handleCounts
  /\ remainingScenes' = st.remainingScenes
  /\ pc' = st.pc
  /\ UNCHANGED <<params, now, calls, tessellation, request, nearbyVars, cellVars,
                 response, storeVars>>

Prepare == pc = "start" /\ become(prepare(params, now))

PickFirst == pc = "sorted" /\ become(pickFirst(params, locals))

LoopStep == pc = "loop" /\ become(loopStep(params, locals))

Next == Prepare \/ PickFirst \/ LoopStep

Spec == Init /\ [][Next]_vars

(***************************************************************************)
(* SpecRepeat: constructFeed called twice with the same parameters, each   *)
(* call whole, the clock not running backwards between them.               *)
(***************************************************************************)
outcome(st) == IF st.pc = "error" THEN [threw |-> TRUE, feed |-> <<>>]
               ELSE [threw |-> FALSE, feed |-> st.feed]

InitRepeat ==
  /\ params \in ParamChoices
  /\ now \in Clock
  /\ feed = <<>>
  /\ handleCounts = NoCounts
  /\ remainingScenes = <<>>
  /\ pc = "idle"
  /\ calls = <<>>
  /\ QueryIdle /\ NearbyIdle /\ CellIdle /\ StoreIdle

Call ==
  /\ Len(calls) < 2
  /\ \E t \in Clock :
       /\ t >= now
       /\ now' = t
       /\ calls' = Append(calls, [at |-> t, result |-> outcome(constructFeed(params, t))])
  /\ UNCHANGED <<params, feed, handleCounts, remainingScenes, tessellation,
                 request, nearbyVars, cellVars, response, storeVars, pc>>

NextRepeat == Call

SpecRepeat == InitRepeat /\ [][NextRepeat]_vars

(***************************************************************************)
(* SpecCell: one call of findCell on a built tessellation, step by step.   *)
(***************************************************************************)
InitCell ==
  /\ tessellation \in BuiltTessellations
  /\ request \in [position : SeqToSet(Sites),
                  next : { <<>> } \cup { <<i>> : i \in 0..(MaxSites - 1) }]
  /\ request.next # <<>> => request.next[1] < Len(tessellation.points)
  /\ pc = "call"
  /\ calls = <<>>
  /\ FeedIdle /\ NearbyIdle /\ CellIdle /\ StoreIdle

cellLocals == [next |-> next, found |-> found, cell |-> cell, dist |-> dist, pc |-> pc]

becomeCell(st) ==
  /\ next' = st.next
  /\ found' = st.found
  /\ cell' = st.cell
  /\ dist' = st.dist
  /\ pc' = st.pc
  /\ UNCHANGED <<feedVars, calls, tessellation, request, nearbyVars, response,
                 storeVars>>

CellStart == pc = "call" /\ becomeCell(startCell(request.next))

CellStep == pc = "walk" /\ becomeCell(walkStep(tessellation, request.position, cellLocals))

NextCell == CellStart \/ CellStep

SpecCell == InitCell /\ [][NextCell]_vars

(***************************************************************************)
(* SpecRadius: one call of findCellWithRadius, the walk of findCell step   *)
(* by step and then the test of the radius.                                *)
(***************************************************************************)
\* The radii a caller supplies: none, 0, and distances that occur between
\* positions, so that a distance equal to the radius happens.
RadiusChoices ==
  { <<>>, <<0>> } \cup { <<distance(Sites[1], Sites[j])>> : j \in 2..Len(Sites) }

InitRadius ==
  /\ tessellation \in BuiltTessellations
  /\ request \in [position : SeqToSet(Sites), next : { <<>> }, radius : RadiusChoices]
  /\ pc = "call"
  /\ calls = <<>>
  /\ FeedIdle /\ NearbyIdle /\ CellIdle /\ StoreIdle

RadiusReturn ==
  /\ pc = "found"
  /\ response' = <<radiusCheck(tessellation, request.position, request.radius, found)>>
  /\ pc' = "returned"
  /\ UNCHANGED <<feedVars, calls, tessellation, request, nearbyVars, cellVars,
                 storeVars>>

NextRadius == CellStart \/ CellStep \/ RadiusReturn

SpecRadius == InitRadius /\ [][NextRadius]_vars

(***************************************************************************)
(* SpecWalk: one call of findCell on a tessellation with any symmetric     *)
(* adjacency, cycles included, from every valid start cell.  The do-while  *)
(* loop runs without yielding, so a step that is enabled is taken.         *)
(***************************************************************************)
InitWalk ==
  /\ tessellation \in GraphTessellations
  /\ request \in [position : SeqToSet(Sites),
                  next : { <<>> } \cup { <<i>> : i \in 0..(MaxCells - 1) }]
  /\ request.next # <<>> => request.next[1] < Len(tessellation.points)
  /\ pc = "call"
  /\ calls = <<>>
  /\ FeedIdle /\ NearbyIdle /\ CellIdle /\ StoreIdle

NextWalk == CellStart \/ CellStep

SpecWalk == InitWalk /\ [][NextWalk]_vars /\ WF_vars(NextWalk)

(***************************************************************************)
(* SpecTimeline: one update of the home timeline.  A document of the       *)
(* collection state.scenes is a scene with its `published` flag and its    *)
(* home_timeline_sort_key.                                                 *)
(***************************************************************************)
Document(scene, published, key) ==
  [scene |-> scene, published |-> published, home_timeline_sort_key |-> key]

\* state.scenes.findOne({ "_id": initialSceneID }): <<>> for null
findOneById(collection, id) ==
  IF \E i \in 1..Len(collection) : collection[i].scene._id = id
  THEN << collection[CHOOSE i \in 1..Len(collection) :
                       collection[i].scene._id = id].scene >>
  ELSE <<>>

\* state.scenes.find({ published: true }).toArray()
RECURSIVE findPublished(_)
findPublished(collection) ==
  IF collection = <<>> THEN <<>>
  ELSE IF Head(collection).published
       THEN <<Head(collection).scene>> \o findPublished(Tail(collection))
       ELSE findPublished(Tail(collection))

\* constructFeed({ scenes, initialScene }), the other parameters at their
\* defaults
timelineParams(collection, initialSceneID) ==
  [scenes |-> findPublished(collection),
   initialScene |-> IF initialSceneID = <<>> THEN <<>>
                    ELSE findOneById(collection, initialSceneID[1]),
   weights |-> DEFAULT_WEIGHTS,
   firstNDistinctHandles |-> 5,
   size |-> Infinity]

\* one updateOne per scene of the feed, setting home_timeline_sort_key to
\* its index
bulkWrite(collection, orderedFeed) ==
  [i \in 1..Len(collection) |->
     IF \E k \in 1..Len(orderedFeed) : orderedFeed[k]._id = collection[i].scene._id
     THEN [collection[i] EXCEPT !.home_timeline_sort_key =
             (CHOOSE k \in 1..Len(orderedFeed) :
                /\ orderedFeed[k]._id = collection[i].scene._id
                /\ \A l \in (k + 1)..Len(orderedFeed) :
                      orderedFeed[l]._id # collection[i].scene._id) - 1]
     ELSE collection[i]]

\* Collections of up to MaxScenes scenes, any of them published, carrying
\* the keys an earlier full ordering gave them.
Collections ==
  UNION { { [i \in 1..Len(s) |-> Document(s[i], flags[i], i - 1)] :
              flags \in [1..Len(s) -> BOOLEAN] } : s \in Pools }

InitTimeline ==
  /\ stateScenes \in Collections
  /\ request \in [initialSceneID : { <<>> } \cup { <<s._id>> : s \in StoredScenes }]
  /\ now \in Clock
  /\ params = <<>>
  /\ feed = <<>>
  /\ handleCounts = NoCounts
  /\ remainingScenes = <<>>
  /\ pc = "request"
  /\ calls = <<>>
  /\ tessellation = <<>>
  /\ NearbyIdle /\ CellIdle
  /\ response = <<>>
  /\ tessellations = {}
  /\ minDistance = 0
  /\ cursor = <<>>
  /\ tessellationScenes = <<>>
  /\ job = "idle"

\* from the look-up of the initial scene to the return of constructFeed
TimelineOrder ==
  /\ pc = "request"
  /\ params' = timelineParams(stateScenes, request.initialSceneID)
  /\ LET st == constructFeed(params', now)
     IN  /\ feed' = st.feed
         /\ pc' = IF st.pc = "error" THEN "error" ELSE "ordered"
  /\ UNCHANGED <<now, handleCounts, remainingScenes, calls, tessellation, request,
                 nearbyVars, cellVars, response, storeVars>>

\* orderedFeed.forEach(...) and state.scenes.bulkWrite(operations)
TimelineWrite ==
  /\ pc = "ordered"
  /\ stateScenes' = bulkWrite(stateScenes, feed)
  /\ pc' = "written"
  /\ UNCHANGED <<feedVars, calls, tessellation, request, nearbyVars, cellVars,
                 response, tessellations, minDistance, cursor, tessellationScenes,
                 job>>

NextTimeline == TimelineOrder \/ TimelineWrite

SpecTimeline == InitTimeline /\ [][NextTimeline]_vars

(***************************************************************************)
(* SpecBuild: one call of createTessellation on scenes of the store, two   *)
(* of them at one place among them.                                        *)
(***************************************************************************)
InitBuild ==
  /\ request \in [scenes : Pools, name : {"global", "local"}]
  /\ tessellation = <<>>
  /\ pc = "call"
  /\ calls = <<>>
  /\ FeedIdle /\ NearbyIdle /\ CellIdle /\ StoreIdle

Build ==
  /\ pc = "call"
  /\ \E t \in Clock :
       tessellation' = createTessellation(request.scenes, request.name, t)
  /\ pc' = "built"
  /\ UNCHANGED <<feedVars, calls, request, nearbyVars, cellVars, response,
                 storeVars>>

NextBuild == Build

SpecBuild == InitBuild /\ [][NextBuild]_vars

(***************************************************************************)
(* SpecNearby: one call of nearbySceneIDs, step by step.                   *)
(***************************************************************************)
InitNearby ==
  /\ tessellation \in GraphTessellations
  /\ request \in [sceneID : 101..(101 + MaxCells), size : 0..MaxCount]
  /\ request.sceneID <= 101 + Len(tessellation.scene_ids)
  /\ pc = "call"
  /\ calls = <<>>
  /\ FeedIdle /\ NearbyIdle /\ CellIdle /\ StoreIdle

nearbyLocals == [sceneIDs |-> sceneIDs, queue |-> queue, visited |-> visited, pc |-> pc]

becomeNearby(st) ==
  /\ sceneIDs' = st.sceneIDs
  /\ queue' = st.queue
  /\ visited' = st.visited
  /\ pc' = st.pc
  /\ UNCHANGED <<feedVars, calls, tessellation, request, cellVars, response,
                 storeVars>>

NearbyStart == pc = "call" /\ becomeNearby(nearbyStart(tessellation, request.sceneID))

NearbyStep == pc = "bfs" /\ becomeNearby(nearbyStep(tessellation, request.size, nearbyLocals))

NextNearby == NearbyStart \/ NearbyStep

SpecNearby == InitNearby /\ [][NextNearby]_vars

(***************************************************************************)
(* SpecStore: the rebuild of the global tessellation (POST                 *)
(* /misc/update-global-tessellation) running next to cell and nearby-feed  *)
(* queries.  A handler runs without interruption between two awaits: the   *)
(* rebuild awaits each scene of its cursor and then its updateOne, a query *)
(* awaits its findOne.  One query is followed from its request to its      *)
(* answer.                                                                 *)
(***************************************************************************)
\* The tessellation stored by an earlier rebuild.
OldTessellation ==
  createTessellation(<< Scene(5, "h3", 0, 3, 1, PlaceD),
                        Scene(2, "h1", 2, 1, 1, PlaceB),
                        Scene(4, "h2", 1, 0, 5, PlaceC) >>, "global", 1)

\* 0.01 (superuser.ts), the default 0.02, and separations that occur
\* between the scenes of the store.
MinDistanceChoices ==
  { 10000, 20000, distance(PlaceA, PlaceB), distance(PlaceA, PlaceC) }

CellRequests ==
  [name : {"global", "local"}, position : {<<>>, PlaceA, PlaceD}]

NearbyFeedRequests == [sceneID : {2, 4, 6}, size : {<<>>, <<0>>, <<2>>}]

\* What state.scenes.find({}).sort({ home_timeline_sort_key: 1 }) yields:
\* scenes of the store in some order, two of them at one place.
Cursors == { s \in Pools : \A i \in 1..Len(s) : s[i]._id <= 4 }

InitStore ==
  /\ tessellations \in { {}, {OldTessellation} }
  /\ minDistance \in MinDistanceChoices
  /\ cursor \in Cursors
  /\ tessellationScenes = <<>>
  /\ job = "filter"
  /\ stateScenes = <<>>
  /\ tessellation = <<>>
  /\ request = <<>>
  /\ response = <<>>
  /\ pc = "idle"
  /\ calls = <<>>
  /\ FeedIdle /\ NearbyIdle /\ CellIdle

\* for await (const scene of scenes) { ... }
FilterStep ==
  /\ job = "filter"
  /\ cursor # <<>>
  /\ tessellationScenes' = filterStep(Head(cursor), tessellationScenes, minDistance)
  /\ cursor' = Tail(cursor)
  /\ UNCHANGED <<feedVars, calls, tessellation, request, nearbyVars, cellVars,
                 response, tessellations, minDistance, job, stateScenes, pc>>

\* return createTessellation(tessellationScenes, "global"), and the updateOne
Store ==
  /\ job = "filter"
  /\ cursor = <<>>
  /\ \E t \in Clock :
       tessellations' =
         LET tess == createTessellation(tessellationScenes, "global", t)
         IN  updateOne(tessellations, tess.name, tess)
  /\ job' = "done"
  /\ UNCHANGED <<feedVars, calls, tessellation, request, nearbyVars, cellVars,
                 response, minDistance, cursor, tessellationScenes, stateScenes,
                 pc>>

queryFrame ==
  UNCHANGED <<feedVars, calls, nearbyVars, cellVars, storeVars>>

CellRead ==
  /\ pc = "idle"
  /\ \E req \in CellRequests :
       /\ request' = req
       /\ tessellation' = findOne(tessellations, req.name)
  /\ response' = <<>>
  /\ pc' = "cell"
  /\ queryFrame

CellAnswer ==
  /\ pc = "cell"
  /\ response' = cellAnswer(tessellation, request)
  /\ pc' = "answered"
  /\ UNCHANGED <<tessellation, request>>
  /\ queryFrame

NearbyFeedRead ==
  /\ pc = "idle"
  /\ \E req \in NearbyFeedRequests :
       /\ request' = req
       /\ tessellation' = findOne(tessellations, "global")
  /\ response' = <<>>
  /\ pc' = "nearby-feed"
  /\ queryFrame

NearbyFeedAnswer ==
  /\ pc = "nearby-feed"
  /\ response' = nearbyFeedAnswer(tessellation, request)
  /\ pc' = "answered"
  /\ UNCHANGED <<tessellation, request>>
  /\ queryFrame

NextStore ==
  \/ FilterStep \/ Store
  \/ CellRead \/ CellAnswer \/ NearbyFeedRead \/ NearbyFeedAnswer

SpecStore == InitStore /\ [][NextStore]_vars

(***************************************************************************)
(* The properties of the feed constructor.                                 *)
(***************************************************************************)
SeedId == params.initialScene[1]._id

SeedInPool ==
  /\ haveInitialScene(params)
  /\ \E i \in 1..Len(params.scenes) : params.scenes[i]._id = SeedId

DistinctPublishers(f, n) ==
  \A i, j \in 1..n : i # j => f[i].handle_id # f[j].handle_id

Min(a, b) == IF a < b THEN a ELSE b

FeedPublishers == { feed[i].handle_id : i \in 1..Len(feed) }

\* C1: when initialScene is supplied and a scene with its id is in `scenes`,
\* the returned feed has initialScene at index 0 and holds no scene with that
\* id at any other index.
C1_SeedFirstAndOnce ==
  (pc = "done" /\ SeedInPool) =>
     /\ feed[1] = params.initialScene[1]
     /\ \A i \in 2..Len(feed) : feed[i]._id # SeedId

C1_Witness == pc = "done" /\ SeedInPool /\ Len(feed) >= 3

\* C2: at every step of constructFeed and in the feed it returns, the first
\* min(feed length, firstNDistinctHandles) items have pairwise-distinct
\* publishers, whether item 0 is the seed or was picked.
C2_WindowDistinct ==
  pc # "idle" =>
     DistinctPublishers(feed, Min(Len(feed), params.firstNDistinctHandles))

\* Item 0 picked by the algorithm, the window filled, a publisher repeated
\* after it.
C2_Witness ==
  /\ pc = "done"
  /\ ~haveInitialScene(params)
  /\ params.firstNDistinctHandles >= 2
  /\ Len(feed) > params.firstNDistinctHandles
  /\ ~DistinctPublishers(feed, Len(feed))

\* C3: constructFeed called with size = N, N >= 0, returns a feed of length
\* at most N.
C3_SizeBound == pc = "done" => Len(feed) <= params.size

\* C4: constructFeed called with an empty `scenes` and no initialScene raises
\* no error and returns an empty feed.
C4_EmptyPoolNoError ==
  (params.scenes = <<>> /\ ~haveInitialScene(params)) =>
     /\ pc # "error"
     /\ pc = "done" => feed = <<>>

\* C5: when every candidate has likes = 0 and impressions = 0, every
\* candidate's popularityComponent is 0 (never NaN).
C5_ZeroPopularityIsZero ==
  (/\ pc \in {"sorted", "loop", "done"}
   /\ \A i \in 1..Len(params.scenes) : popularity(params.scenes[i]) = 0) =>
     \A i \in 1..Len(remainingScenes) :
        remainingScenes[i].popularityComponent = 0

\* C10: while the feed is shorter than firstNDistinctHandles (and than size),
\* if every remaining candidate's publisher is already in the feed, the step
\* places no item and the feed is returned as it stands.
C10_WindowStopsEarly ==
  [][ (/\ pc = "loop"
       /\ Len(feed) < params.firstNDistinctHandles
       /\ Len(feed) < params.size
       /\ remainingScenes # <<>>
       /\ \A i \in 1..Len(remainingScenes) :
             remainingScenes[i].scene.handle_id \in FeedPublishers)
      => (feed' = feed /\ pc' = "done") ]_vars

\* A feed returned short of the window and of size with candidates left over.
C10_Witness ==
  /\ pc = "done"
  /\ Len(feed) < params.firstNDistinctHandles
  /\ Len(feed) < params.size
  /\ remainingScenes # <<>>

\* The scenes of the seed and the pool together, and their publishers.
SeedAndPool ==
  SeqToSet(params.scenes) \cup
    (IF haveInitialScene(params) THEN {params.initialScene[1]} ELSE {})

DistinctSceneIds == { s._id : s \in SeedAndPool }

AllPublishers == { s.handle_id : s \in SeedAndPool }

\* C11: when seed plus pool hold at least firstNDistinctHandles distinct
\* publishers, constructFeed with size = N >= 1 returns a feed of length
\* exactly min(N, number of distinct scenes in seed plus pool), and with size
\* unset a feed that holds every candidate exactly once.
C11_ExactSize ==
  (/\ pc \in {"done", "error"}
   /\ Cardinality(AllPublishers) >= params.firstNDistinctHandles
   /\ params.size >= 1) =>
     /\ pc = "done"
     /\ Len(feed) = Min(params.size, Cardinality(DistinctSceneIds))
     /\ params.size = Infinity =>
          /\ { feed[i]._id : i \in 1..Len(feed) } = DistinctSceneIds
          /\ \A i, j \in 1..Len(feed) : i # j => feed[i]._id # feed[j]._id

\* The items of the pool as constructFeed scores them before the first pick.
ScoredPool == prepare(params, now).remainingScenes

\* popularityComponent + timeComponent
intrinsic(item) == NumAdd(item.popularityComponent, item.timeComponent)

\* a <= b as numbers: false when either is NaN
NumLeq(a, b) == a # NaN /\ b # NaN /\ a <= b

\* C12: with no seed and default weights, item 0 of the feed is a candidate
\* whose popularityComponent + timeComponent is maximal over the pool, and
\* its publisher has count 1 before any further selection.
C12_FirstPickMaximal ==
  (/\ pc = "loop"
   /\ Len(feed) = 1
   /\ ~haveInitialScene(params)
   /\ params.weights = DEFAULT_WEIGHTS) =>
     /\ \E i \in 1..Len(ScoredPool) :
           /\ ScoredPool[i].scene = feed[1]
           /\ \A j \in 1..Len(ScoredPool) :
                 NumLeq(intrinsic(ScoredPool[j]), intrinsic(ScoredPool[i]))
     /\ inHandleCounts(feed[1].handle_id, handleCounts)
     /\ handleCounts[feed[1].handle_id] = 1

OwnedBy(f, h) == Cardinality({ i \in 1..Len(f) : f[i].handle_id = h })

\* handleCounts[h], an absent entry meaning 0
CountOf(h) == IF inHandleCounts(h, handleCounts) THEN handleCounts[h] ELSE 0

\* C19: at every step of constructFeed, for every publisher h, handleCounts[h]
\* (0 when absent) is the number of items of the feed that h owns, and the
\* variety component a selection step computes for a candidate is exp(-n/5)
\* with n the number of feed items of its publisher.
C19_CountsMatchFeed ==
  [][ /\ \A h \in AllPublishers' \cup DOMAIN handleCounts' :
           CountOf(h)' = OwnedBy(feed', h)
      /\ (pc = "loop" /\ Len(feed) < params.size /\ remainingScenes # <<>>) =>
           \A i \in 1..Len(remainingScenes') :
              remainingScenes'[i].varietyComponent =
                handleCountComponent(OwnedBy(feed, remainingScenes'[i].scene.handle_id)) ]_vars

\* A feed in which one publisher owns two items and another publisher one,
\* candidates of a publisher of the feed still waiting.
C19_Witness ==
  /\ pc = "loop"
  /\ \E h \in FeedPublishers : OwnedBy(feed, h) >= 2
  /\ Cardinality(FeedPublishers) >= 2
  /\ remainingScenes # <<>>

\* The composite score of a candidate at a selection step: the weighted sum
\* under the supplied weights, the distance component measured to the item
\* placed last and the variety component taken from the publisher's number
\* of items in the feed.
Composite(item) ==
  score([item EXCEPT
           !.varietyComponent =
              handleCountComponent(OwnedBy(feed, item.scene.handle_id)),
           !.distanceComponent =
              distanceComponent(distanceBetween(feed[Len(feed)], item.scene))],
        params.weights)

\* Every remaining candidate once the window is full, and inside the window
\* the candidates of publishers not yet in the feed.
Eligible(item) ==
  \/ Len(feed) >= params.firstNDistinctHandles
  \/ item.scene.handle_id \notin FeedPublishers

\* C20: at each selection step after item 0 the item appended has the
\* maximal composite score among the eligible candidates.
C20_PickIsMaximal ==
  [][ (pc = "loop" /\ Len(feed') = Len(feed) + 1) =>
        \E i \in 1..Len(remainingScenes) :
           /\ remainingScenes[i].scene = feed'[Len(feed')]
           /\ Eligible(remainingScenes[i])
           /\ \A j \in 1..Len(remainingScenes) :
                 Eligible(remainingScenes[j]) =>
                    NumLeq(Composite(remainingScenes[j]),
                           Composite(remainingScenes[i])) ]_vars

\* weights.time * timeComponent + weights.popularity * popularityComponent
weighted(item, weights) ==
  NumAdd(NumMul(weights.time, item.timeComponent),
         NumMul(weights.popularity, item.popularityComponent))

\* C21: with no seed and non-default weights, item 0 is a candidate that
\* maximises weights.time * timeComponent + weights.popularity *
\* popularityComponent over the pool.
C21_WeightsGovernFirstPick ==
  (/\ pc = "loop"
   /\ Len(feed) = 1
   /\ ~haveInitialScene(params)
   /\ params.weights # DEFAULT_WEIGHTS) =>
     \E i \in 1..Len(ScoredPool) :
        /\ ScoredPool[i].scene = feed[1]
        /\ \A j \in 1..Len(ScoredPool) :
              NumLeq(weighted(ScoredPool[j], params.weights),
                     weighted(ScoredPool[i], params.weights))

\* the scenes waiting in the remaining-candidates list, in order
RemainingSceneList == [i \in 1..Len(remainingScenes) |-> remainingScenes[i].scene]

Occurrences(list, x) == Cardinality({ i \in 1..Len(list) : list[i] = x })

PoolWithoutSeed ==
  { s \in SeqToSet(params.scenes) :
      ~(haveInitialScene(params) /\ s._id = SeedId) }

Partitioned ==
  /\ \A s \in PoolWithoutSeed :
        Occurrences(feed, s) + Occurrences(RemainingSceneList, s) = 1
  /\ \A i \in 1..Len(feed) :
        /\ feed[i] \in SeedAndPool
        /\ Occurrences(feed, feed[i]) = 1

OneMoved ==
  \E i \in 1..Len(remainingScenes) :
     /\ feed' = Append(feed, remainingScenes[i].scene)
     /\ Len(remainingScenes') = Len(remainingScenes) - 1
     /\ SeqToSet(RemainingSceneList') =
          SeqToSet(RemainingSceneList) \ {remainingScenes[i].scene}

\* C22: once the candidates are set up, every pool scene other than the seed
\* is in exactly one of the feed and the remaining-candidates list, the feed
\* holds no scene twice and only the seed and pool members, and every
\* selection moves exactly one scene from the remaining list to the end of
\* the feed and leaves every other scene where it was.
C22_FeedAndRemainingPartition ==
  /\ [](pc \in {"sorted", "loop", "done"} => Partitioned)
  /\ [][(pc \in {"sorted", "loop"} /\ pc' # "error") =>
          \/ OneMoved
          \/ feed' = feed /\ SeqToSet(RemainingSceneList') = SeqToSet(RemainingSceneList)
                          /\ Len(remainingScenes') = Len(remainingScenes)]_vars

\* a finished feed of the seed and two moved scenes, one candidate left
C22_Witness ==
  /\ pc = "done"
  /\ haveInitialScene(params)
  /\ ~SeedInPool
  /\ Len(feed) = 3
  /\ Len(remainingScenes) = 1
  /\ params.firstNDistinctHandles = 2

\* C30: when a seed is supplied and no scene of the pool has its id, the
\* seed is item 0, its publisher is counted once when the candidates are set
\* up and as often as it owns items of the feed afterwards, every later item
\* is a pool member, and no later item inside the diversity window has the
\* seed's publisher.
C30_AbsentSeedStillFirst ==
  (/\ pc \in {"sorted", "loop", "done"}
   /\ haveInitialScene(params)
   /\ ~SeedInPool) =>
     LET seed == params.initialScene[1]
     IN  /\ feed[1] = seed
         /\ \A i \in 2..Len(feed) : feed[i] \in SeqToSet(params.scenes)
         /\ pc = "sorted" => (feed = <<seed>> /\ DOMAIN handleCounts = {seed.handle_id})
         /\ handleCounts[seed.handle_id] = OwnedBy(feed, seed.handle_id)
         /\ \A i \in 2..Min(Len(feed), params.firstNDistinctHandles) :
               feed[i].handle_id # seed.handle_id

\* a finished feed of a seed that is not in the pool and two pool members,
\* the pool holding a scene of the seed's publisher
C30_Witness ==
  /\ pc = "done"
  /\ haveInitialScene(params)
  /\ ~SeedInPool
  /\ Len(feed) >= 3
  /\ params.firstNDistinctHandles >= 2
  /\ \E i \in 1..Len(params.scenes) :
        params.scenes[i].handle_id = params.initialScene[1].handle_id

(***************************************************************************)
(* The properties of repeated calls.                                       *)
(***************************************************************************)
AgeInDays(scene, t) == t - scene.creation_date

\* The two clock readings leave scene on the same side of one week of age.
SameSideOfWeek(scene, t1, t2) ==
  /\ AgeInDays(scene, t1) < 7 <=> AgeInDays(scene, t2) < 7
  /\ AgeInDays(scene, t1) = 7 <=> AgeInDays(scene, t2) = 7

NoRepeat(s) == \A i, j \in 1..Len(s) : i # j => s[i] # s[j]

\* C7: for a tessellation whose scene_ids are pairwise distinct, the list
\* nearbySceneIDs returns holds no scene id more than once, the seed id
\* included.
C7_NoRepeatedId ==
  (pc = "returned" /\ NoRepeat(tessellation.scene_ids)) => NoRepeat(sceneIDs)

\* C8 as claimed: for every k >= 0 nearbySceneIDs returns at most k ids.
C8_AtMostK == pc = "returned" => Len(sceneIDs) <= request.size

\* C8: for every k >= 1 nearbySceneIDs returns at most k ids, and for k = 0
\* the list of the seed id alone.
C8_AtMostKFromOne ==
  pc = "returned" =>
     /\ request.size >= 1 => Len(sceneIDs) <= request.size
     /\ request.size = 0 => sceneIDs = <<request.sceneID>>

\* The traversal cut short by k with a cell not yet visited in the queue.
C8_Witness ==
  /\ pc = "returned"
  /\ request.size >= 2
  /\ Len(sceneIDs) = request.size
  /\ \E i \in 1..Len(queue) : queue[i] \notin visited

\* the cells within k neighbour links of cell `from`
RECURSIVE Within(_, _, _)
Within(t, from, k) ==
  IF k = 0 THEN {from}
  ELSE LET near == Within(t, from, k - 1)
       IN  near \cup { j \in 0..(Len(t.points) - 1) :
                         \E i \in near : j \in SeqToSet(t.neighbors[i + 1]) }

Hops(t, from, to) ==
  CHOOSE k \in 0..Len(t.points) :
     /\ to \in Within(t, from, k)
     /\ \A h \in 0..(k - 1) : to \notin Within(t, from, h)

SeedAbsent ==
  \A i \in 1..Len(tessellation.scene_ids) :
     tessellation.scene_ids[i] # request.sceneID

CellOf(id) ==
  CHOOSE c \in 0..(Len(tessellation.scene_ids) - 1) :
     tessellation.scene_ids[c + 1] = id

\* hop distance from the seed's cell of the cell of the i-th id returned
HopsOfEntry(i) ==
  Hops(tessellation, CellOf(request.sceneID), CellOf(sceneIDs[i]))

\* C25: when the seed id is in the tessellation, the list nearbySceneIDs
\* builds starts with the seed id, every id in it belongs to a cell reachable
\* from the seed's cell through the adjacency lists, and the ids appear in
\* non-decreasing hop distance from the seed's cell.
C25_BreadthFirstOrder ==
  (pc \in {"bfs", "returned"} /\ ~SeedAbsent) =>
     /\ sceneIDs[1] = request.sceneID
     /\ \A i \in 1..Len(sceneIDs) :
           /\ \E c \in 0..(Len(tessellation.scene_ids) - 1) :
                 tessellation.scene_ids[c + 1] = sceneIDs[i]
           /\ CellOf(sceneIDs[i]) \in
                 Within(tessellation, CellOf(request.sceneID),
                        Len(tessellation.points))
     /\ \A i, j \in 1..Len(sceneIDs) : i < j => HopsOfEntry(i) <= HopsOfEntry(j)

\* a returned list that reaches a cell two links from the seed's cell after
\* two cells one link from it
C25_Witness ==
  /\ pc = "returned"
  /\ ~SeedAbsent
  /\ Len(sceneIDs) = 5
  /\ HopsOfEntry(3) = 1
  /\ HopsOfEntry(4) = 1
  /\ HopsOfEntry(5) = 2

\* C26: when the seed id does not occur in scene_ids, nearbySceneIDs returns
\* the one-element list of the seed id for every k, with nothing put in the
\* queue and no cell visited.
C26_AbsentSeedAlone ==
  (pc # "call" /\ SeedAbsent) =>
     /\ pc = "returned"
     /\ sceneIDs = <<request.sceneID>>
     /\ queue = <<>>
     /\ visited = {}

\* an absent seed, a tessellation with neighbours to traverse and k >= 2
C26_Witness ==
  /\ pc = "returned"
  /\ SeedAbsent
  /\ request.size >= 2
  /\ Len(tessellation.points) >= 2
  /\ tessellation.neighbors[1] # <<>>

\* The cell of the tessellation strictly nearest to the position, if any.
StrictlyNearest(t, position, i) ==
  \A j \in 1..Len(t.points) :
     j # i => distance(position, t.points[i]) < distance(position, t.points[j])

StartCell == IF request.next = <<>> THEN 0 ELSE request.next[1]

\* C9: on a tessellation of well-separated points with Delaunay adjacency,
\* findCell queried at the position of point i, or at a position nearer to
\* point i than to any other point, returns i, from every start cell.
C9_FindsOwnCell ==
  (/\ pc = "found"
   /\ tessellation.neighbors = geoDelaunayNeighbors(tessellation.points)) =>
     \A i \in 1..Len(tessellation.points) :
        StrictlyNearest(tessellation, request.position, i) => found = i - 1

\* C14: in the pre-filter of createGlobalTessellation, at every step and in
\* the final input set, every two distinct accepted scenes are separated by
\* an angular distance strictly greater than minDistance.
C14_AcceptedFarApart ==
  \A i, j \in 1..Len(tessellationScenes) :
     i # j => distance(tessellationScenes[i].place,
                       tessellationScenes[j].place) > minDistance

\* Two scenes accepted and the next scene of the cursor too close to one of
\* them.
C14_Witness ==
  /\ job = "filter"
  /\ Len(tessellationScenes) >= 2
  /\ cursor # <<>>
  /\ \E i \in 1..Len(tessellationScenes) :
        distance(Head(cursor).place, tessellationScenes[i].place) <= minDistance

\* The document is the tessellation of the scenes the rebuild accepted,
\* whole.
Rebuilt(doc) ==
  /\ doc.last_updated \in Clock
  /\ doc = createTessellation(tessellationScenes, "global", doc.last_updated)

\* The collection holds the old tessellation, if any, until the rebuild has
\* stored, and the new one from then on.
StoredWhole ==
  IF job = "done"
  THEN tessellations # {} /\ \A doc \in tessellations : Rebuilt(doc)
  ELSE \A doc \in tessellations : doc = OldTessellation

\* C17: the rebuild stores its result as one replacement of the document
\* named "global" that sets neighbors, points, polygons, scene_ids and
\* last_updated together: the step that stores leaves the new tessellation
\* whole in the collection and no other step changes the collection, so the
\* document a query has read is the complete old tessellation or the
\* complete one of the collection; and no step of a query writes the
\* collection.
C17_ReplacedWhole ==
  [][ /\ IF job' # job THEN StoredWhole' ELSE tessellations' = tessellations
      /\ (pc' \in {"cell", "nearby-feed", "answered"} /\ tessellation' # <<>>)
            => (tessellation' = OldTessellation \/ tessellation' \in tessellations')
      /\ pc' # pc => tessellations' = tessellations ]_vars

\* A query that read the old tessellation before the rebuild replaced it and
\* has yet to answer.
C17_Witness ==
  /\ pc \in {"cell", "nearby-feed"}
  /\ tessellation = OldTessellation
  /\ job = "done"
  /\ OldTessellation \notin tessellations
  /\ tessellations # {}

\* C18: a cell query or a nearby-feed query that refers to a tessellation
\* not in the store is answered with a not-found outcome (status 404), and
\* the query builds and stores no tessellation.
C18_MissingIsNotFound ==
  [][ (pc \in {"cell", "nearby-feed"} /\ tessellation = <<>> /\ pc' = "answered") =>
        /\ response'.statusCode = 404
        /\ tessellations' = tessellations
        /\ tessellationScenes' = tessellationScenes ]_vars

\* the distance from the target of the walk to cell i (zero-based)
ToTarget(i) == distance(request.position, tessellation.points[i + 1])

\* C23: findCell terminates on every tessellation with valid neighbour
\* indices, from every start cell and for every target, cycles included:
\* each turn of the loop visits the cell the turn before chose, every move
\* goes to a cell strictly closer to the target than the cell it leaves,
\* and the walk ends.
C23_WalkTerminates ==
  /\ [][(pc = "walk" /\ pc' = "walk") =>
          /\ cell' = next[1]
          /\ dist' = ToTarget(next'[1])
          /\ ToTarget(next'[1]) < ToTarget(cell')]_vars
  /\ <>(pc = "found")

\* a walk of two moves ended, on a tessellation whose cells 0, 1 and 2 form a
\* cycle
C23_Witness ==
  /\ pc = "found"
  /\ Len(tessellation.points) >= 3
  /\ tessellation.neighbors[1] = <<1, 2>>
  /\ {0, 2} \subseteq SeqToSet(tessellation.neighbors[2])
  /\ found # StartCell
  /\ \A k \in 1..Len(tessellation.neighbors[StartCell + 1]) :
        tessellation.neighbors[StartCell + 1][k] # found

\* the cells reachable from cell `from` along neighbour links
RECURSIVE ReachableFrom(_, _)
ReachableFrom(t, seen) ==
  LET more == seen \cup { j \in 0..(Len(t.points) - 1) :
                            \E i \in seen : j \in SeqToSet(t.neighbors[i + 1]) }
  IN  IF more = seen THEN seen ELSE ReachableFrom(t, more)

NoCloserNeighbour(i) ==
  \A k \in 1..Len(tessellation.neighbors[i + 1]) :
     ~(ToTarget(tessellation.neighbors[i + 1][k]) < ToTarget(i))

\* C24: the index findCell returns is a cell with no neighbour strictly
\* closer to the target than itself, reachable from the start cell along
\* neighbour links, and it is the start cell when the start cell has no
\* strictly closer neighbour.
C24_LocalMinimumReachable ==
  pc = "found" =>
     /\ NoCloserNeighbour(found)
     /\ found \in ReachableFrom(tessellation, {StartCell})
     /\ NoCloserNeighbour(StartCell) => found = StartCell

\* a hinted start cell other than 0 that has no closer neighbour is
\* returned although another cell of the tessellation is closer to the target
C24_Witness ==
  /\ pc = "found"
  /\ request.next # <<>>
  /\ StartCell # 0
  /\ found = StartCell
  /\ tessellation.neighbors[StartCell + 1] # <<>>
  /\ \E j \in 0..(Len(tessellation.points) - 1) : ToTarget(j) < ToTarget(found)

\* C27: after a timeline update every published scene has
\* home_timeline_sort_key equal to its zero-based position in the feed just
\* constructed, so that no two published scenes share a key.
C27_FullOrderedRewrite ==
  pc = "written" =>
     /\ \A i \in 1..Len(stateScenes) :
           stateScenes[i].published =>
              \E k \in 1..Len(feed) :
                 /\ feed[k] = stateScenes[i].scene
                 /\ stateScenes[i].home_timeline_sort_key = k - 1
     /\ \A i, j \in 1..Len(stateScenes) :
           (i # j /\ stateScenes[i].published /\ stateScenes[j].published) =>
              stateScenes[i].home_timeline_sort_key #
                stateScenes[j].home_timeline_sort_key

\* C28: the pre-filter takes the scenes in the order the cursor yields them
\* (ascending home_timeline_sort_key): the first scene is accepted, every
\* scene is either appended to the accepted scenes or leaves them as they
\* were, and a scene is left out only if a scene accepted before it lies
\* within minDistance of it.
C28_RejectedOnlyNearAccepted ==
  [][(job = "filter" /\ cursor # <<>> /\ cursor' = Tail(cursor)) =>
       /\ tessellationScenes = <<>> => tessellationScenes' = <<Head(cursor)>>
       /\ \/ tessellationScenes' = Append(tessellationScenes, Head(cursor))
          \/ /\ tessellationScenes' = tessellationScenes
             /\ \E i \in 1..Len(tessellationScenes) :
                   distance(Head(cursor).place, tessellationScenes[i].place)
                     <= minDistance]_vars

\* the scene the cursor yields next is within minDistance of the first
\* accepted scene, at another place, and farther than minDistance from the
\* second
C28_Witness ==
  /\ job = "filter"
  /\ Len(tessellationScenes) = 2
  /\ cursor # <<>>
  /\ Head(cursor).place # tessellationScenes[1].place
  /\ distance(Head(cursor).place, tessellationScenes[1].place) <= minDistance
  /\ distance(Head(cursor).place, tessellationScenes[2].place) > minDistance

\* C29: createTessellation returns no tessellation whose polygons array is
\* shorter than its points and scene_ids arrays: when the Voronoi diagram
\* has fewer polygons than there are scenes the call fails instead.
C29_NoShortPolygons ==
  pc = "built" =>
     /\ Len(tessellation.polygons) = Len(tessellation.points)
     /\ Len(tessellation.polygons) = Len(tessellation.scene_ids)

\* C13: findCellWithRadius returns the cell findCell found when that cell's
\* point is not farther than the supplied radius from the position, and null
\* exactly when it is farther, for every supplied radius >= 0.
C13_RadiusDecides ==
  (pc = "returned" /\ request.radius # <<>>) =>
     LET d == distance(request.position, tessellation.points[found + 1])
     IN  /\ d <= request.radius[1] => response = << <<found>> >>
         /\ d > request.radius[1] => response = << <<>> >>

\* A query at the position of a point whose cell is not the start cell nor
\* adjacent to it: the walk took two moves at least.
C9_Witness ==
  /\ pc = "found"
  /\ request.position = tessellation.points[found + 1]
  /\ StartCell # found
  /\ \A k \in 1..Len(tessellation.neighbors[StartCell + 1]) :
        tessellation.neighbors[StartCell + 1][k] # found

====
